---- MODULE Spec2Model ----
(***************************************************************************)
(* V20 signal scanner (strategy.py): get_df, find_v20_signals, scan_stocks *)
(* and the lazy bulk cache.                                                *)
(*                                                                         *)
(* Prices are integers in mils (1/1000 of a currency unit), so that        *)
(* round(x, 2) is a real rounding.  Rounded prices are in hundredths,      *)
(* rounded percentages in hundredths of a percent.  A moving average is    *)
(* held as the sum of its window (the mean times MA_WINDOW).  Arithmetic   *)
(* is exact; float64 representation error is not modelled.                 *)
(* Timestamps of the index are day ordinals counted from BaseDate.         *)
(***************************************************************************)
EXTENDS Integers, Naturals, Sequences, FiniteSets, TLC

\* ---------------------------------------------------------------- config
THRESHOLD_PERCENT == 20
MA_WINDOW == 200

\* Python's None, float('nan') and float('inf') as values outside the prices
None == -1
NaN == -2
Inf == -3

\* ---------------------------------------------------------------- bounds
MaxLen == 3
MaxTail == 2
PadLen == 198
ScanPad == 199
NumStocks == 2
MaxCalls == 2
NumRequests == 2

\* ---------------------------------------------------------------- input bars
Bar(o, h, l, c) == [Open |-> o, High |-> h, Low |-> l, Close |-> c]

day1 == Bar(10000, 11000, 9000, 10500)
day2 == Bar(10500, 13000, 10300, 12800)
day3 == Bar(12500, 12600, 10000, 10200)
smallUp == Bar(10000, 10506, 9904, 10400)
highUp == Bar(11500, 12000, 11400, 11900)
doji == Bar(10000, 10200, 9800, 10000)
crossedUp == Bar(10000, 9000, 12000, 11000)
flatHigh == Bar(20000, 20000, 20000, 20000)
flatLow == Bar(5000, 5000, 5000, 5000)
nanRow == Bar(NaN, NaN, NaN, NaN)

Bars == {day1, day2, day3, smallUp, doji, crossedUp}
PadBars == {flatHigh, flatLow, day2}
HeadBars == {day1}

RECURSIVE SeqsUpTo(_, _)
SeqsUpTo(S, n) ==
    IF n = 0 THEN {<< >>}
    ELSE LET shorter == SeqsUpTo(S, n - 1)
         IN  shorter \cup {Append(s, x) : s \in {t \in shorter : Len(t) = n - 1}, x \in S}

\* A ticker's column of the downloaded frame: head rows, then n copies of
\* padBar, then the tail rows.  The frame's index gives the timestamps of the
\* tail rows; the rows before them are dated 1, 2, ...
Column(head, n, padBar, tail) == [head |-> head, n |-> n, padBar |-> padBar, tail |-> tail]

Frame(index, cols) == [index |-> index, cols |-> cols]

Ascending(k) == [i \in 1..k |-> i]
SwappedFront(k) == [i \in 1..k |-> IF i = 1 THEN 2 ELSE IF i = 2 THEN 1 ELSE i]

\* ---------------------------------------------------------------- numbers
Min(a, b) == IF a <= b THEN a ELSE b
Max(a, b) == IF a >= b THEN a ELSE b
Abs(a) == IF a < 0 THEN 0 - a ELSE a

\* round(num/den, 2) style rounding to the nearest integer, ties to even (den > 0)
RoundHalfEven(num, den) ==
    LET q == num \div den
        r == num - q * den
    IN  IF 2 * r < den THEN q
        ELSE IF 2 * r > den THEN q + 1
        ELSE IF q % 2 = 0 THEN q ELSE q + 1

\* round(price, 2): mils to hundredths
RoundPrice(p) == RoundHalfEven(p, 10)

\* round(num/den percent, 2): hundredths of a percent
RoundPct(num, den) == RoundHalfEven(num * 100, den)

\* num/den >= k, for den # 0
RatGE(num, den, k) == IF den > 0 THEN num >= k * den ELSE num <= k * den

\* Python truthiness of an optional float
Truthy(x) == x # None /\ x # 0

\* price < average, where the average is NaN, Inf or a window sum
BelowAverage(price, avg) ==
    IF avg = NaN THEN FALSE
    ELSE IF avg = Inf THEN TRUE
    ELSE price * MA_WINDOW < avg

\* ---------------------------------------------------------------- dates
BaseDate == <<2023, 6, 13>>

DaysInMonth(y, m) ==
    IF m = 2 THEN (IF y % 4 = 0 /\ (y % 100 # 0 \/ y % 400 = 0) THEN 29 ELSE 28)
    ELSE IF m \in {4, 6, 9, 11} THEN 30 ELSE 31

RECURSIVE AddDays(_, _, _, _)
AddDays(y, m, d, n) ==
    IF d + n <= DaysInMonth(y, m) THEN <<y, m, d + n>>
    ELSE AddDays(IF m = 12 THEN y + 1 ELSE y, IF m = 12 THEN 1 ELSE m + 1, 1,
                 n - (DaysInMonth(y, m) - d) - 1)

\* Timestamp.date(): the calendar date of a day ordinal
DateOf(ordinal) == AddDays(BaseDate[1], BaseDate[2], BaseDate[3], ordinal)

Digit(k) == 48 + k
Hyphen == 45

\* str(date): the ISO string YYYY-MM-DD as character codes
DateStr(date) ==
    LET y == date[1]
        m == date[2]
        d == date[3]
    IN  << Digit(y \div 1000), Digit((y \div 100) % 10), Digit((y \div 10) % 10), Digit(y % 10),
           Hyphen, Digit(m \div 10), Digit(m % 10),
           Hyphen, Digit(d \div 10), Digit(d % 10) >>

RECURSIVE StrLess(_, _)
StrLess(s, t) ==
    IF t = << >> THEN FALSE
    ELSE IF s = << >> THEN TRUE
    ELSE IF Head(s) # Head(t) THEN Head(s) < Head(t)
    ELSE StrLess(Tail(s), Tail(t))

\* ---------------------------------------------------------------- get_df
\* get_df's None return (an empty frame is << >>)
NoDf == << [none |-> TRUE] >>

\* bulk[symbol + ".NS"]: the rows of one column under the frame's index
ColumnRows(col, index) ==
    LET h == Len(col.head)
        before == h + col.n
    IN  [i \in 1..(before + Len(col.tail)) |->
            LET bar == IF i <= h THEN col.head[i]
                       ELSE IF i <= before THEN col.padBar
                       ELSE col.tail[i - before]
                date == IF i <= before THEN i ELSE before + index[i - before]
            IN  [Date |-> date, Open |-> bar.Open, High |-> bar.High,
                 Low |-> bar.Low, Close |-> bar.Close]]

HasNaN(row) == row.Open = NaN \/ row.High = NaN \/ row.Low = NaN \/ row.Close = NaN

dropna(rows) == SelectSeq(rows, LAMBDA row : ~HasNaN(row))

\* sum of the closes of rows from..to (split in halves to keep the evaluation shallow)
RECURSIVE SumClose(_, _, _)
SumClose(rows, from, to) ==
    IF from > to THEN 0
    ELSE IF from = to THEN rows[from].Close
    ELSE LET mid == (from + to) \div 2
         IN  SumClose(rows, from, mid) + SumClose(rows, mid + 1, to)

\* rolling(window).mean() at row i: NaN until the window is full
RollingMean(rows, i) ==
    IF i < MA_WINDOW THEN NaN ELSE SumClose(rows, i - MA_WINDOW + 1, i)

\* df[['Open', 'High', 'Low', 'Close']].copy() with the MA200 column added
Annotate(rows) ==
    [i \in 1..Len(rows) |->
        [Date |-> rows[i].Date, Open |-> rows[i].Open, High |-> rows[i].High,
         Low |-> rows[i].Low, Close |-> rows[i].Close,
         MA200 |-> RollingMean(rows, i)]]

StrictlyIncreasing(seq) == \A i \in 1..(Len(seq) - 1) : seq[i] < seq[i + 1]

\* variant: an empty frame is not turned into None
get_df_noEmptyCheck(bulk, symbol) ==
    IF symbol \notin DOMAIN bulk.cols THEN NoDf
    ELSE Annotate(dropna(ColumnRows(bulk.cols[symbol], bulk.index)))

\* variant: a frame whose dates do not strictly increase is turned into None
get_df_checksDates(bulk, symbol) ==
    IF symbol \notin DOMAIN bulk.cols THEN NoDf
    ELSE LET rows == dropna(ColumnRows(bulk.cols[symbol], bulk.index))
         IN  IF rows = << >> \/ ~StrictlyIncreasing([i \in 1..Len(rows) |-> rows[i].Date])
             THEN NoDf
             ELSE Annotate(rows)

get_df(bulk, symbol) ==
    IF symbol \notin DOMAIN bulk.cols THEN NoDf
    ELSE LET rows == dropna(ColumnRows(bulk.cols[symbol], bulk.index))
         IN  IF rows = << >> THEN NoDf
             ELSE Annotate(rows)

\* ---------------------------------------------------------------- find_v20_signals
\* cur.get(key, default)
RowGet(row, key, default) == IF key \in DOMAIN row THEN row[key] ELSE default

\* variant: a candle that closes where it opened counts as green
IsGreen_orEqual(cur) == cur.Close >= cur.Open

IsGreen(cur) == cur.Close > cur.Open

\* variant: the close of the first row
LatestClose_first(d) == d[1].Close

\* df['Close'].iloc[-1]
LatestClose(d) == d[Len(d)].Close

\* iloc[-1] raises IndexError on an empty frame
Raises(d) == Len(d) = 0

\* variant: the magnitude test is missing
PassesFilter_noThreshold(low, high, cur) ==
    BelowAverage(low, RowGet(cur, "MA200", Inf))

\* variant: either test suffices
PassesFilter_either(low, high, cur) ==
    \/ RatGE((high - low) * 100, low, THRESHOLD_PERCENT)
    \/ BelowAverage(low, RowGet(cur, "MA200", Inf))

PassesFilter(low, high, cur) ==
    /\ RatGE((high - low) * 100, low, THRESHOLD_PERCENT)
    /\ BelowAverage(low, RowGet(cur, "MA200", Inf))

\* variant: low and high reported in each other's place
MakeSignal_swapped(date, low, high, latest_close) ==
    << date, RoundPrice(high), RoundPrice(low), RoundPct((high - low) * 100, low),
       RoundPrice(latest_close), RoundPct(Abs(latest_close - low) * 100, low) >>

MakeSignal(date, low, high, latest_close) ==
    << date, RoundPrice(low), RoundPrice(high), RoundPct((high - low) * 100, low),
       RoundPrice(latest_close), RoundPct(Abs(latest_close - low) * 100, low) >>

\* variant: a streak is evaluated on every candle, also while it is still running
LoopBody_eager(d, i, st) ==
    LET cur == d[i + 1]
        low == IF IsGreen(cur)
               THEN (IF st.streak_low = None THEN cur.Low ELSE Min(st.streak_low, cur.Low))
               ELSE st.streak_low
        high == IF IsGreen(cur)
                THEN (IF st.streak_high = None THEN cur.High ELSE Max(st.streak_high, cur.High))
                ELSE st.streak_high
        sigs == IF Truthy(low) /\ Truthy(high) /\ PassesFilter(low, high, cur)
                THEN Append(st.signals, MakeSignal(DateOf(cur.Date), low, high, LatestClose(d)))
                ELSE st.signals
    IN  IF IsGreen(cur)
        THEN [streak_low |-> low, streak_high |-> high, signals |-> sigs]
        ELSE [streak_low |-> None, streak_high |-> None, signals |-> sigs]

\* variant: a red candle evaluates the streak and leaves it running
LoopBody_noReset(d, i, st) ==
    LET cur == d[i + 1]
        low == st.streak_low
        high == st.streak_high
    IN  IF IsGreen(cur)
        THEN [streak_low |-> IF low = None THEN cur.Low ELSE Min(low, cur.Low),
              streak_high |-> IF high = None THEN cur.High ELSE Max(high, cur.High),
              signals |-> st.signals]
        ELSE [streak_low |-> low,
              streak_high |-> high,
              signals |-> IF Truthy(low) /\ Truthy(high) /\ PassesFilter(low, high, cur)
                          THEN Append(st.signals,
                                      MakeSignal(DateOf(cur.Date), low, high, LatestClose(d)))
                          ELSE st.signals]

\* variant: a red candle resets streak_low and forgets streak_high
LoopBody_resetsLowOnly(d, i, st) ==
    LET cur == d[i + 1]
        low == st.streak_low
        high == st.streak_high
    IN  IF IsGreen(cur)
        THEN [streak_low |-> IF low = None THEN cur.Low ELSE Min(low, cur.Low),
              streak_high |-> IF high = None THEN cur.High ELSE Max(high, cur.High),
              signals |-> st.signals]
        ELSE [streak_low |-> None,
              streak_high |-> high,
              signals |-> IF Truthy(low) /\ Truthy(high) /\ PassesFilter(low, high, cur)
                          THEN Append(st.signals,
                                      MakeSignal(DateOf(cur.Date), low, high, LatestClose(d)))
                          ELSE st.signals]

\* one iteration of the for loop, at Python index i (row i + 1)
LoopBody(d, i, st) ==
    LET cur == d[i + 1]
        low == st.streak_low
        high == st.streak_high
    IN  IF IsGreen(cur)
        THEN [streak_low |-> IF low = None THEN cur.Low ELSE Min(low, cur.Low),
              streak_high |-> IF high = None THEN cur.High ELSE Max(high, cur.High),
              signals |-> st.signals]
        ELSE [streak_low |-> None,
              streak_high |-> None,
              signals |-> IF Truthy(low) /\ Truthy(high) /\ PassesFilter(low, high, cur)
                          THEN Append(st.signals,
                                      MakeSignal(DateOf(cur.Date), low, high, LatestClose(d)))
                          ELSE st.signals]

FirstIndex == 1

\* F applied to the value of x: x is evaluated before F is entered
Strict(F(_), x) == CHOOSE y \in {F(v) : v \in {x}} : TRUE

LoopStart == [streak_low |-> None, streak_high |-> None, signals |-> << >>]

\* the iterations from..to in order (split in halves to keep the evaluation shallow)
RECURSIVE LoopRange(_, _, _, _)
LoopRange(d, from, to, st) ==
    IF from > to THEN st
    ELSE IF from = to THEN LoopBody(d, from, st)
    ELSE LET mid == (from + to) \div 2
         IN  Strict(LAMBDA left : LoopRange(d, mid + 1, to, left),
                    LoopRange(d, from, mid, st))

\* for idx in range(1, len(df))
find_v20_signals(d) == LoopRange(d, FirstIndex, Len(d) - 1, LoopStart).signals

\* ---------------------------------------------------------------- scan_stocks
StockNames == << "3MINDIA", "AHLUCONT", "AIAENG", "AJANTPHARM" >>

all_stocks == SubSeq(StockNames, 1, NumStocks)

Record(sig, sym) ==
    [SignalDate |-> DateStr(sig[1]), Symbol |-> sym, BuyAt |-> sig[2], SellAt |-> sig[3],
     PctMove |-> sig[4], Close |-> sig[5], Proximity |-> sig[6]]

\* the records scan_stocks appends for one symbol whose frame is d
RecordsOf(d, sym) ==
    IF d = NoDf THEN << >>
    ELSE LET sigs == find_v20_signals(d)
         IN  [k \in 1..Len(sigs) |-> Record(sigs[k], sym)]

SymbolRecords(bulk, sym) == Strict(LAMBDA d : RecordsOf(d, sym), get_df(bulk, sym))

\* variant: the sort key is the date alone
KeyLess_dateOnly(a, b) == StrLess(a.SignalDate, b.SignalDate)

\* (SignalDate, Proximity%) tuple comparison
KeyLess(a, b) ==
    \/ StrLess(a.SignalDate, b.SignalDate)
    \/ a.SignalDate = b.SignalDate /\ a.Proximity < b.Proximity

\* variant: an element is placed before the elements it ties with
RECURSIVE InsertDesc_unstable(_, _)
InsertDesc_unstable(out, x) ==
    IF out = << >> THEN << x >>
    ELSE IF ~KeyLess(x, Head(out)) THEN << x >> \o out
    ELSE << Head(out) >> \o InsertDesc_unstable(Tail(out), x)

RECURSIVE InsertDesc(_, _)
InsertDesc(out, x) ==
    IF out = << >> THEN << x >>
    ELSE IF KeyLess(Head(out), x) THEN << x >> \o out
    ELSE << Head(out) >> \o InsertDesc(Tail(out), x)

RECURSIVE InsertAsc(_, _)
InsertAsc(out, x) ==
    IF out = << >> THEN << x >>
    ELSE IF KeyLess(x, Head(out)) THEN << x >> \o out
    ELSE << Head(out) >> \o InsertAsc(Tail(out), x)

RECURSIVE SortAscFrom(_, _, _)
SortAscFrom(list, k, out) ==
    IF k > Len(list) THEN out ELSE SortAscFrom(list, k + 1, InsertAsc(out, list[k]))

\* variant: the sort without reverse=True
SortResults_ascending(list) == SortAscFrom(list, 1, << >>)

RECURSIVE SortFrom(_, _, _)
SortFrom(list, k, out) ==
    IF k > Len(list) THEN out ELSE SortFrom(list, k + 1, InsertDesc(out, list[k]))

\* list.sort(key=..., reverse=True): descending and stable
SortResults(list) == SortFrom(list, 1, << >>)

\* ---------------------------------------------------------------- provider data
\* the last rows of a ticker: two closed streaks, one closed streak on the
\* second or the third day, an incomplete first row, and a streak left running
ScanTails ==
    { << day1, day3, day1, day3 >>,
      << day1, day3, day3, day1 >>,
      << day3, day1, day3, day3 >>,
      << nanRow, day1, day3, day1 >>,
      << day1, day1, day1, day1 >> }

TailLen == Len(CHOOSE t \in ScanTails : TRUE)

\* columns of tickers with data, and the all-NaN column of a ticker whose
\* download failed
ScanColumns ==
    {Column(<< >>, ScanPad, flatHigh, t) : t \in ScanTails}
    \cup {Column(<< >>, ScanPad, nanRow, [i \in 1..TailLen |-> nanRow])}

StockSet == {all_stocks[i] : i \in 1..Len(all_stocks)}

\* what yf.download may return for the configured tickers
BulkData ==
    {Frame(index, cols) :
        index \in {Ascending(TailLen), SwappedFront(TailLen)},
        cols \in UNION {[present -> ScanColumns] : present \in SUBSET StockSet}}

\* last rows with two closed streaks of different height, the second also
\* followed by one more row
DetectorTails ==
    { << day2, day3, day1, day3 >>,
      << day2, day3, day1, day3, day2 >> }

\* n rows that alternate between an up-candle and a red candle, the
\* up-candles alternately low and high
AlternatingRows(n, offset) ==
    [i \in 1..n |->
        LET r == (i + offset) % 4
        IN  IF r = 0 THEN smallUp ELSE IF r = 2 THEN highUp ELSE day3]

\* frames of one ticker, for the detector
DetectorFrames ==
    {Frame(Ascending(Len(t)), [s \in {all_stocks[1]} |-> Column(<< >>, ScanPad, flatHigh, t)]) :
        t \in DetectorTails}
    \cup
    {Frame(<< >>, [s \in {all_stocks[1]} |-> Column(AlternatingRows(n, off), 0, flatHigh, << >>)]) :
        n \in {ScanPad + 2, ScanPad + 3}, off \in {0, 1}}
    \cup
    {Frame(Ascending(Len(t)), [s \in {all_stocks[1]} |-> Column(<< >>, 0, flatHigh, t)]) :
        t \in SeqsUpTo(Bars, MaxLen)}
    \cup
    {Frame(Ascending(Len(t)), [s \in {all_stocks[1]} |-> Column(h, PadLen, p, t)]) :
        h \in {<< >>} \cup {<< b >> : b \in HeadBars}, p \in PadBars,
        t \in SeqsUpTo(Bars, MaxTail)}

\* ---------------------------------------------------------------- state
VARIABLES bulk_cache, df, idx, streak_low, streak_high, signals, pc,
          results, pos, returned, scan_pc, requests, downloads

vars == << bulk_cache, df, idx, streak_low, streak_high, signals, pc,
           results, pos, returned, scan_pc, requests, downloads >>

detector_vars == << df, idx, streak_low, streak_high, signals, pc >>
scan_vars == << results, pos, returned, scan_pc >>
serve_vars == << requests, downloads >>

\* the threads of the web server, one per request to the '/' route
Requests == 1..NumRequests

\* a request that has not arrived yet
NoRequest == [pc |-> "waiting", pos |-> 0, results |-> << >>, seen |-> << >>]

\* _bulk_cache: << >> is None, << frame >> a downloaded frame
NoCache == << >>

\* the values _get_bulk may return: the cache, or a fresh download when empty
get_bulk(cache) == IF cache = NoCache THEN BulkData ELSE {cache[1]}

\* ---------------------------------------------------------------- detector steps
\* one symbol of scan_stocks, iteration by iteration, on a populated cache
InitDetector ==
    /\ bulk_cache \in {<< f >> : f \in DetectorFrames}
    /\ df = NoDf
    /\ idx = 0
    /\ streak_low = None
    /\ streak_high = None
    /\ signals = << >>
    /\ pc = "get_df"
    /\ results = << >>
    /\ pos = 0
    /\ returned = << >>
    /\ scan_pc = "off"
    /\ requests = [t \in Requests |-> NoRequest]
    /\ downloads = 0

GetDf ==
    /\ pc = "get_df"
    /\ df' = get_df(bulk_cache[1], all_stocks[1])
    /\ pc' = IF df' = NoDf THEN "skipped" ELSE IF Raises(df') THEN "raised" ELSE "loop"
    /\ idx' = FirstIndex
    /\ streak_low' = LoopStart.streak_low
    /\ streak_high' = LoopStart.streak_high
    /\ signals' = LoopStart.signals
    /\ UNCHANGED << bulk_cache, scan_vars, serve_vars >>

CurState == [streak_low |-> streak_low, streak_high |-> streak_high, signals |-> signals]

Iterate ==
    /\ pc = "loop"
    /\ idx < Len(df)
    /\ LET st == LoopBody(df, idx, CurState)
       IN  /\ streak_low' = st.streak_low
           /\ streak_high' = st.streak_high
           /\ signals' = st.signals
    /\ idx' = idx + 1
    /\ UNCHANGED << bulk_cache, df, pc, scan_vars, serve_vars >>

Return ==
    /\ pc = "loop"
    /\ idx >= Len(df)
    /\ pc' = "done"
    /\ UNCHANGED << bulk_cache, df, idx, streak_low, streak_high, signals, scan_vars, serve_vars >>

NextDetector == GetDf \/ Iterate \/ Return

Spec == InitDetector /\ [][NextDetector]_vars

\* ---------------------------------------------------------------- scan steps
InitScan ==
    /\ bulk_cache = NoCache
    /\ df = NoDf
    /\ idx = 0
    /\ streak_low = None
    /\ streak_high = None
    /\ signals = << >>
    /\ pc = "off"
    /\ results = << >>
    /\ pos = 0
    /\ returned = << >>
    /\ scan_pc = "idle"
    /\ requests = [t \in Requests |-> NoRequest]
    /\ downloads = 0

\* variant: the result list outlives the call
ScanBegin_keepsResults ==
    /\ scan_pc = "idle"
    /\ Len(returned) < MaxCalls
    /\ pos' = 1
    /\ scan_pc' = "symbols"
    /\ UNCHANGED << bulk_cache, results, returned, detector_vars, serve_vars >>

ScanBegin ==
    /\ scan_pc = "idle"
    /\ Len(returned) < MaxCalls
    /\ results' = << >>
    /\ pos' = 1
    /\ scan_pc' = "symbols"
    /\ UNCHANGED << bulk_cache, returned, detector_vars, serve_vars >>

ScanSymbol ==
    /\ scan_pc = "symbols"
    /\ pos <= Len(all_stocks)
    /\ \E bulk \in get_bulk(bulk_cache) :
          /\ bulk_cache' = << bulk >>
          /\ \E d \in {get_df(bulk, all_stocks[pos])} :
                IF d # NoDf /\ Raises(d)
                THEN /\ scan_pc' = "aborted"
                     /\ UNCHANGED << results, pos >>
                ELSE /\ results' = results \o RecordsOf(d, all_stocks[pos])
                     /\ pos' = pos + 1
                     /\ scan_pc' = scan_pc
    /\ UNCHANGED << returned, detector_vars, serve_vars >>

ScanReturn ==
    /\ scan_pc = "symbols"
    /\ pos > Len(all_stocks)
    /\ results' = SortResults(results)
    /\ returned' = Append(returned, results')
    /\ scan_pc' = "idle"
    /\ UNCHANGED << bulk_cache, pos, detector_vars, serve_vars >>

NextScan == ScanBegin \/ ScanSymbol \/ ScanReturn

SpecScan == InitScan /\ [][NextScan]_vars

\* ---------------------------------------------------------------- concurrent requests
\* what yf.download may return while the server runs: the same tickers with
\* the history as of two different moments
ServeData ==
    {Frame(Ascending(TailLen), [s \in StockSet |-> Column(<< >>, ScanPad, flatHigh, t)]) :
        t \in {<< day1, day3, day1, day3 >>, << day1, day3, day3, day1 >>}}

InitServe ==
    /\ bulk_cache = NoCache
    /\ df = NoDf
    /\ idx = 0
    /\ streak_low = None
    /\ streak_high = None
    /\ signals = << >>
    /\ pc = "off"
    /\ results = << >>
    /\ pos = 0
    /\ returned = << >>
    /\ scan_pc = "off"
    /\ requests = [t \in Requests |-> NoRequest]
    /\ downloads = 0

\* home() calls scan_stocks(): results = []
Arrive(t) ==
    /\ requests[t].pc = "waiting"
    /\ requests' = [requests EXCEPT ![t] = [pc |-> "check", pos |-> 1,
                                            results |-> << >>, seen |-> << >>]]
    /\ UNCHANGED << bulk_cache, downloads, detector_vars, scan_vars >>

\* for sym in all_stocks: get_df(sym) enters _get_bulk and tests the cache
CheckCache(t) ==
    /\ requests[t].pc = "check"
    /\ requests[t].pos <= Len(all_stocks)
    /\ requests' = [requests EXCEPT ![t].pc = IF bulk_cache = NoCache THEN "download"
                                               ELSE "read"]
    /\ UNCHANGED << bulk_cache, downloads, detector_vars, scan_vars >>

\* _bulk_cache = _bulk_download()
Download(t) ==
    /\ requests[t].pc = "download"
    /\ \E bulk \in ServeData : bulk_cache' = << bulk >>
    /\ downloads' = downloads + 1
    /\ requests' = [requests EXCEPT ![t].pc = "read"]
    /\ UNCHANGED << detector_vars, scan_vars >>

\* return _bulk_cache, and the rest of the loop body on the frame returned
ReadCache(t) ==
    /\ requests[t].pc = "read"
    /\ LET bulk == bulk_cache[1]
           sym == all_stocks[requests[t].pos]
       IN  \E d \in {get_df(bulk, sym)} :
              requests' = [requests EXCEPT
                  ![t].pc = IF d # NoDf /\ Raises(d) THEN "aborted" ELSE "check",
                  ![t].pos = @ + 1,
                  ![t].results = @ \o RecordsOf(d, sym),
                  ![t].seen = Append(@, bulk)]
    /\ UNCHANGED << bulk_cache, downloads, detector_vars, scan_vars >>

\* results.sort(...); return results
Respond(t) ==
    /\ requests[t].pc = "check"
    /\ requests[t].pos > Len(all_stocks)
    /\ requests' = [requests EXCEPT ![t].pc = "done", ![t].results = SortResults(@)]
    /\ UNCHANGED << bulk_cache, downloads, detector_vars, scan_vars >>

NextServe ==
    \E t \in Requests : Arrive(t) \/ CheckCache(t) \/ Download(t) \/ ReadCache(t) \/ Respond(t)

SpecServe == InitServe /\ [][NextServe]_vars

\* both machines side by side: the detector on one ticker and the whole scan
SpecAll == (InitDetector \/ InitScan) /\ [][NextDetector \/ NextScan]_vars

\* ================================================================ properties
\* the candle the loop is about to process
Cur == df[idx + 1]

InLoop == pc = "loop" /\ idx < Len(df)

Emits == Len(signals') = Len(signals) + 1 /\ SubSeq(signals', 1, Len(signals)) = signals

BarsOf(d) == [i \in 1..Len(d) |-> Bar(d[i].Open, d[i].High, d[i].Low, d[i].Close)]

\* the rows of the maximal run of green candles that ends right before row k
PrecedingRun(d, k) == {j \in 1..(k - 1) : \A m \in j..(k - 1) : IsGreen(d[m])}

MinLow(d, run) == CHOOSE x \in {d[j].Low : j \in run} : \A j \in run : x <= d[j].Low
MaxHigh(d, run) == CHOOSE x \in {d[j].High : j \in run} : \A j \in run : x >= d[j].High

\* C1: a signal emitted at a confirming bar reports the minimum Low and the
\* maximum High of the maximal run of up-candles immediately before that bar,
\* a run that starts at the first bar of the series included; on the series
\* day1, day2, day3 the streak closed by day3 has low 9 and high 13.
C1_StreakIsMaximalRun ==
    [][ /\ (InLoop /\ Len(signals') > Len(signals)) =>
              LET run == PrecedingRun(df, idx + 1)
                  sig == signals'[Len(signals')]
              IN  /\ run # {}
                  /\ sig[2] = RoundPrice(MinLow(df, run))
                  /\ sig[3] = RoundPrice(MaxHigh(df, run))
        /\ (InLoop /\ BarsOf(df) = << day1, day2, day3 >> /\ idx = 2) =>
              (streak_low = 9000 /\ streak_high = 13000) ]_vars

\* C2: in a series of fewer than 200 bars (MA200 undefined everywhere) a streak
\* closed by a non-up bar with percentMove >= THRESHOLD_PERCENT emits a signal.
C2_UndefinedAverageNeverBlocks ==
    [][ ( /\ InLoop
          /\ Len(df) < MA_WINDOW
          /\ ~IsGreen(Cur)
          /\ Truthy(streak_low) /\ Truthy(streak_high)
          /\ (streak_high - streak_low) * 100 >= THRESHOLD_PERCENT * streak_low )
        => Emits ]_vars

\* C3: every signal of find_v20_signals and every record of scan_stocks has a
\* percentMove of at least THRESHOLD_PERCENT.
C3_PercentMoveAtLeastThreshold ==
    /\ \A k \in 1..Len(signals) : signals[k][4] >= THRESHOLD_PERCENT * 100
    /\ \A k \in 1..Len(results) : results[k].PctMove >= THRESHOLD_PERCENT * 100
    /\ \A c \in 1..Len(returned) : \A k \in 1..Len(returned[c]) :
          returned[c][k].PctMove >= THRESHOLD_PERCENT * 100

C3_Witness ==
    /\ pc = "done"
    /\ \E k \in 1..Len(signals) : signals[k][4] >= THRESHOLD_PERCENT * 100 /\ signals[k][4] < 2500

\* C4: when a non-up bar with a defined MA200 closes a non-empty streak, exactly
\* one signal is emitted if percentMove >= THRESHOLD_PERCENT and the streak low
\* is below that bar's MA200, and none otherwise.
C4_EmitsIffBothConditions ==
    [][ ( /\ InLoop
          /\ ~IsGreen(Cur)
          /\ streak_low # None /\ streak_high # None
          /\ Cur.MA200 # NaN )
        => IF /\ (streak_high - streak_low) * 100 >= THRESHOLD_PERCENT * streak_low
              /\ streak_low * MA_WINDOW < Cur.MA200
           THEN Emits
           ELSE signals' = signals ]_vars

\* a signal has just been emitted at a bar whose MA200 is defined
C4_Witness ==
    /\ pc = "loop"
    /\ idx >= 2
    /\ df[idx].MA200 # NaN
    /\ ~IsGreen(df[idx])
    /\ signals # << >>
    /\ signals[Len(signals)][1] = DateOf(df[idx].Date)

\* C5: every emitted signal has buyAt <= sellAt.
C5_BuyAtMostSell ==
    \A k \in 1..Len(signals) : signals[k][2] <= signals[k][3]

C5_Witness ==
    /\ pc = "done"
    /\ signals # << >>
    /\ signals[1][2] < signals[1][3]

AllGreen(d) == \A k \in 1..Len(d) : IsGreen(d[k])

\* C7: a streak that no non-up bar terminates produces no signal: a series of
\* up-candles only ends with no signal, and neither an up-candle nor the end of
\* the series adds a signal.
C7_UnterminatedStreakSilent ==
    /\ [](pc = "done" /\ AllGreen(df) => signals = << >>)
    /\ [][ (pc = "loop" /\ (idx >= Len(df) \/ IsGreen(Cur))) => signals' = signals ]_vars

\* the series ended on a running streak that would have passed both tests
C7_Witness ==
    /\ pc = "done"
    /\ streak_low # None /\ streak_high # None
    /\ (streak_high - streak_low) * 100 >= THRESHOLD_PERCENT * streak_low
    /\ df[Len(df)].MA200 # NaN
    /\ streak_low * MA_WINDOW < df[Len(df)].MA200

\* ---------------------------------------------------------------- scan properties
\* the list the call that just returned handed out
JustReturned == scan_pc = "idle" /\ returned # << >>
LastReturned == returned[Len(returned)]

DescendingPair(a, b) ==
    \/ StrLess(b.SignalDate, a.SignalDate)
    \/ a.SignalDate = b.SignalDate /\ a.Proximity >= b.Proximity

C8_SecondCallIdentical ==
    \A c1, c2 \in 1..Len(returned) : returned[c1] = returned[c2]

C8_Witness ==
    /\ Len(returned) = 2
    /\ Len(returned[2]) >= 2

\* the column is absent, or no row of it is complete
MissingOrEmpty(bulk, sym) ==
    \/ sym \notin DOMAIN bulk.cols
    \/ \A row \in {ColumnRows(bulk.cols[sym], bulk.index)[i] :
                     i \in 1..Len(ColumnRows(bulk.cols[sym], bulk.index))} : HasNaN(row)

\* the records the complete rows of a column give, in row order
RowRecords(bulk, sym) ==
    Strict(LAMBDA d : RecordsOf(d, sym), Annotate(dropna(ColumnRows(bulk.cols[sym], bulk.index))))

RecordsWithSymbol(list, sym) == SelectSeq(list, LAMBDA r : r.Symbol = sym)

SameRecords(a, b) ==
    /\ Len(a) = Len(b)
    /\ {a[k] : k \in 1..Len(a)} = {b[k] : k \in 1..Len(b)}

\* C9: a symbol whose column is missing or has no complete row is skipped and
\* does not abort the scan: the call returns, no record carries that symbol,
\* and every other symbol's signals are all there.
C9_SkippedSymbolsLeaveTheRest ==
    /\ scan_pc # "aborted"
    /\ JustReturned =>
          \A sym \in StockSet :
              IF MissingOrEmpty(bulk_cache[1], sym)
              THEN RecordsWithSymbol(LastReturned, sym) = << >>
              ELSE SameRecords(RecordsWithSymbol(LastReturned, sym),
                               RowRecords(bulk_cache[1], sym))

\* one symbol was skipped for an empty series, another one has a record
C9_Witness ==
    /\ JustReturned
    /\ \E sym \in StockSet :
          /\ sym \in DOMAIN bulk_cache[1].cols
          /\ MissingOrEmpty(bulk_cache[1], sym)
    /\ LastReturned # << >>

\* the dates of the complete rows of a column
SeriesDates(bulk, sym) ==
    LET rows == dropna(ColumnRows(bulk.cols[sym], bulk.index))
    IN  [i \in 1..Len(rows) |-> rows[i].Date]

\* C10 as stated: no record of the result comes from a series whose dates do
\* not strictly increase.
C10_NonMonotonicSkipped ==
    \A c \in 1..Len(returned) : \A k \in 1..Len(returned[c]) :
        StrictlyIncreasing(SeriesDates(bulk_cache[1], returned[c][k].Symbol))

\* C10 amended: the order of the dates is not examined; a series whose dates do
\* not strictly increase is processed in row order like any other, and the
\* signals it gives are in the result.
C10_NonMonotonicProcessed ==
    JustReturned =>
        \A sym \in DOMAIN bulk_cache[1].cols :
            ~StrictlyIncreasing(SeriesDates(bulk_cache[1], sym)) =>
                SameRecords(RecordsWithSymbol(LastReturned, sym),
                            RowRecords(bulk_cache[1], sym))

C10_Witness ==
    /\ JustReturned
    /\ \E k \in 1..Len(LastReturned) :
          ~StrictlyIncreasing(SeriesDates(bulk_cache[1], LastReturned[k].Symbol))

\* ---------------------------------------------------------------- cache properties
\* the frames a request has read so far
FramesSeen(t) == {requests[t].seen[k] : k \in 1..Len(requests[t].seen)}

\* C11: under any interleaving of concurrent requests _bulk_download is invoked
\* at most once, a cache that is set is never replaced, and every request
\* reads the same data.
C11_DownloadedAtMostOnce ==
    /\ [](downloads <= 1)
    /\ [][bulk_cache # NoCache => bulk_cache' = bulk_cache]_vars
    /\ [](Cardinality(UNION {FramesSeen(t) : t \in Requests}) <= 1)

\* ---------------------------------------------------------------- order of processing
\* the orders in which the symbols can be processed
Orders ==
    {o \in [1..Len(all_stocks) -> StockSet] :
        \A i, j \in 1..Len(all_stocks) : i # j => o[i] # o[j]}

\* the collected list had the symbols been processed in the given order
RECURSIVE InOrder(_, _, _)
InOrder(list, order, k) ==
    IF k > Len(order) THEN << >>
    ELSE RecordsWithSymbol(list, order[k]) \o InOrder(list, order, k + 1)

\* scan_stocks has processed every symbol and is about to sort
AboutToSort == scan_pc = "symbols" /\ pos > Len(all_stocks)

SameKey(a, b) == a.SignalDate = b.SignalDate /\ a.Proximity = b.Proximity

Count(list, r) == Cardinality({k \in 1..Len(list) : list[k] = r})

SameBag(a, b) ==
    /\ Len(a) = Len(b)
    /\ \A k \in 1..Len(a) : Count(a, a[k]) = Count(b, a[k])

\* two records of different symbols with the same date and proximity
CrossTie(list) ==
    \E k, l \in 1..Len(list) : list[k].Symbol # list[l].Symbol /\ SameKey(list[k], list[l])

PlaceIn(order, sym) == CHOOSE i \in 1..Len(order) : order[i] = sym

\* C12 as stated: whatever the order in which the symbols are processed, the
\* sorted list returned is identical, also when records of different symbols
\* share SignalDate and Proximity%.
C12_OrderIndependent ==
    [][ AboutToSort =>
            \A order \in Orders : SortResults(InOrder(results, order, 1)) = results' ]_vars

\* C12 amended: whatever the order in which the symbols are processed, the
\* sorted list holds the same records with the same (SignalDate, Proximity%)
\* at every position, and records that tie on both appear in the order in
\* which they were appended; the list is identical when no two records of
\* different symbols tie on both.
C12_OrderIndependentUpToTies ==
    [][ AboutToSort =>
            \A order \in Orders :
                LET out == SortResults(InOrder(results, order, 1))
                IN  /\ SameBag(out, results')
                    /\ \A k \in 1..Len(out) : SameKey(out[k], results'[k])
                    /\ \A k, l \in 1..Len(out) :
                           (k < l /\ SameKey(out[k], out[l])) =>
                               PlaceIn(order, out[k].Symbol) <= PlaceIn(order, out[l].Symbol)
                    /\ ~CrossTie(results) => out = results' ]_vars

\* the sorted list of a call holds a tie between two symbols, next to a
\* record of another date
C12_Witness ==
    /\ JustReturned
    /\ CrossTie(LastReturned)
    /\ \E k, l \in 1..Len(LastReturned) :
          LastReturned[k].SignalDate # LastReturned[l].SignalDate

\* ---------------------------------------------------------------- streak properties
Started == pc \in {"loop", "done"}

\* the last candle the loop has processed is df[idx], once idx has moved
Processed == Started /\ idx > FirstIndex

\* the rows the loop has processed since the last red candle before row k
LoopRun(d, k) == {j \in (FirstIndex + 1)..(k - 1) : \A m \in j..(k - 1) : IsGreen(d[m])}

NewSignal == signals'[Len(signals')]

\* C13: every non-up bar leaves the detector Idle with the streak discarded,
\* whether or not the streak was evaluated or emitted a signal; so a signal
\* reports the low and high of the up-candles processed since the last non-up
\* bar only, never a bar of a streak closed earlier.
C13_NonUpBarDiscardsStreak ==
    /\ [][ (InLoop /\ Cur.Close <= Cur.Open) =>
                (streak_low' = None /\ streak_high' = None) ]_vars
    /\ [][ (InLoop /\ Len(signals') > Len(signals)) =>
                LET run == LoopRun(df, idx + 1)
                IN  /\ run # {}
                    /\ NewSignal[2] = RoundPrice(MinLow(df, run))
                    /\ NewSignal[3] = RoundPrice(MaxHigh(df, run)) ]_vars

\* two signals, the later one with a lower high than the streak closed before it
C13_Witness ==
    /\ pc = "done"
    /\ Len(signals) >= 2
    /\ signals[2][3] < signals[1][3]
    /\ streak_low = None /\ streak_high = None

\* C14: a doji (close = open) never starts a streak and never changes the low
\* or high of a running one; when a streak is running it closes it, and the
\* streak is evaluated as it stood, with the doji as the confirming bar.
C14_DojiIsNonUp ==
    [][ (InLoop /\ Cur.Close = Cur.Open) =>
            /\ streak_low' = None /\ streak_high' = None
            /\ (streak_low = None /\ streak_high = None) => signals' = signals
            /\ (streak_low # None /\ streak_high # None /\ Cur.MA200 # NaN) =>
                  IF /\ (streak_high - streak_low) * 100 >= THRESHOLD_PERCENT * streak_low
                     /\ streak_low * MA_WINDOW < Cur.MA200
                  THEN /\ Emits
                       /\ NewSignal[1] = DateOf(Cur.Date)
                       /\ NewSignal[2] = RoundPrice(streak_low)
                       /\ NewSignal[3] = RoundPrice(streak_high)
                  ELSE signals' = signals ]_vars

\* a doji below the streak's low has just confirmed a signal
C14_Witness ==
    /\ pc = "loop"
    /\ idx >= 2
    /\ df[idx].Close = df[idx].Open
    /\ signals # << >>
    /\ signals[Len(signals)][1] = DateOf(df[idx].Date)
    /\ RoundPrice(df[idx].Low) < signals[Len(signals)][2]
    /\ streak_low = None

\* C15: a signal's signalDate is the date of the non-up bar that closed the
\* streak, and its latestClose is the close of the last bar of the series, so
\* all signals of one series carry the same latestClose.
C15_DateOfConfirmingBarCloseOfLastBar ==
    /\ [][ (InLoop /\ Len(signals') > Len(signals)) =>
                /\ Cur.Close <= Cur.Open
                /\ NewSignal[1] = DateOf(Cur.Date)
                /\ NewSignal[5] = RoundPrice(df[Len(df)].Close) ]_vars
    /\ [](\A k, l \in 1..Len(signals) : signals[k][5] = signals[l][5])

\* two signals, neither confirmed by a bar that closed where the series closes
C15_Witness ==
    /\ pc = "done"
    /\ Len(signals) >= 2
    /\ \A k \in 1..Len(signals) : \A i \in 1..Len(df) :
          DateOf(df[i].Date) = signals[k][1] => df[i].Close # df[Len(df)].Close

Alternating(d) == \A i \in 1..(Len(d) - 1) : IsGreen(d[i]) # IsGreen(d[i + 1])

\* every up-candle alone has a range below the threshold
UpCandlesBelowThreshold(d) ==
    \A i \in 1..Len(d) :
        IsGreen(d[i]) => (d[i].High - d[i].Low) * 100 < THRESHOLD_PERCENT * d[i].Low

\* C16: a series that alternates up-candle / non-up-candle on every bar and
\* whose up-candles each have a range below THRESHOLD_PERCENT emits no signal:
\* each one-candle streak is rejected on magnitude at the next bar, and the
\* ranges of separate up-candles are never accumulated.
C16_AlternatingSmallCandlesSilent ==
    (Started /\ Alternating(df) /\ UpCandlesBelowThreshold(df)) => signals = << >>

\* such a series has ended; one-candle streaks with a low under the average
\* were evaluated, and two up-candles together span the threshold
C16_Witness ==
    /\ pc = "done"
    /\ Alternating(df) /\ UpCandlesBelowThreshold(df)
    /\ signals = << >>
    /\ \E k \in MA_WINDOW..Len(df) :
          /\ ~IsGreen(df[k])
          /\ IsGreen(df[k - 1])
          /\ df[k - 1].Low * MA_WINDOW < df[k].MA200
          /\ (df[k - 3].High - df[k - 1].Low) * 100 >= THRESHOLD_PERCENT * df[k - 1].Low

\* C18: at every iteration boundary streak_low and streak_high are both unset
\* or both set; they are set exactly when the candle processed last (from
\* index 1 on) was an up-candle; and when set, streak_low <= streak_high
\* provided every bar has Low <= High.
C18_StreakBothOrNeither ==
    Started =>
        /\ (streak_low = None) <=> (streak_high = None)
        /\ (streak_low # None) <=> (idx > FirstIndex /\ IsGreen(df[idx]))
        /\ streak_low # None =>
              (streak_low <= streak_high \/ \E i \in 1..Len(df) : df[i].Low > df[i].High)

\* a streak of two candles is running, with its low below its high
C18_Witness ==
    /\ pc = "loop"
    /\ idx >= 3
    /\ IsGreen(df[idx]) /\ IsGreen(df[idx - 1])
    /\ \A i \in 1..Len(df) : df[i].Low <= df[i].High
    /\ streak_low # None /\ streak_high # None
    /\ streak_low < streak_high

DateLess(a, b) ==
    \/ a[1] < b[1]
    \/ a[1] = b[1] /\ a[2] < b[2]
    \/ a[1] = b[1] /\ a[2] = b[2] /\ a[3] < b[3]

\* the rows where an up-candle is followed by a non-up candle
Transitions(d) == {i \in 1..(Len(d) - 1) : IsGreen(d[i]) /\ ~IsGreen(d[i + 1])}

\* C19: a step of the loop emits at most one signal, and only at a non-up bar
\* whose preceding processed bar is an up-candle; for a series with strictly
\* increasing dates the signals are in strictly increasing signalDate order,
\* and there are never more signals than up-to-non-up transitions.
C19_OneSignalPerClosedStreak ==
    /\ [][ InLoop =>
                \/ signals' = signals
                \/ /\ Emits
                   /\ Cur.Close <= Cur.Open
                   /\ idx > FirstIndex
                   /\ df[idx].Close > df[idx].Open ]_vars
    /\ [][ (InLoop /\ Len(signals') > Len(signals)) =>
                /\ (signals # << >> /\ StrictlyIncreasing([i \in 1..Len(df) |-> df[i].Date])) =>
                       DateLess(signals[Len(signals)][1], NewSignal[1])
                /\ Len(signals') <= Cardinality(Transitions(df)) ]_vars

\* two signals in one series, on different dates
C19_Witness ==
    /\ pc = "done"
    /\ Len(signals) = 2
    /\ DateLess(signals[1][1], signals[2][1])
    /\ Cardinality(Transitions(df)) = 2

\* ---------------------------------------------------------------- ranking properties
\* C17: results are ordered newest date first and then by nearest proximity:
\* among records with the same SignalDate the one with the smaller Proximity%
\* comes before one with a larger Proximity%.
C17_NearestProximityFirst ==
    \A c \in 1..Len(returned) : \A k, l \in 1..Len(returned[c]) :
        k < l =>
            /\ ~StrLess(returned[c][k].SignalDate, returned[c][l].SignalDate)
            /\ returned[c][k].SignalDate = returned[c][l].SignalDate =>
                  returned[c][k].Proximity <= returned[c][l].Proximity

\* the records of the symbols that are not skipped, in all_stocks order
RECURSIVE Collected(_, _)
Collected(bulk, k) ==
    IF k > Len(all_stocks) THEN << >>
    ELSE (IF MissingOrEmpty(bulk, all_stocks[k]) THEN << >>
          ELSE RowRecords(bulk, all_stocks[k])) \o Collected(bulk, k + 1)

FirstAt(list, r) == CHOOSE k \in 1..Len(list) : list[k] = r /\ \A j \in 1..(k - 1) : list[j] # r

\* C20: the sort only reorders: the returned list holds exactly the records
\* collected from the symbols that are not skipped, each with the symbol of
\* the series that gave it, and records that tie on SignalDate and Proximity%
\* keep the order in which they were appended, the order of their symbols in
\* all_stocks.
C20_SortIsStablePermutation ==
    /\ [][ AboutToSort =>
                /\ SameBag(results', results)
                /\ \A k, l \in 1..Len(results') :
                       (k < l /\ SameKey(results'[k], results'[l])) =>
                           FirstAt(results, results'[k]) <= FirstAt(results, results'[l]) ]_vars
    /\ [](JustReturned =>
             /\ SameBag(LastReturned, Collected(bulk_cache[1], 1))
             /\ \A k, l \in 1..Len(LastReturned) :
                    (k < l /\ SameKey(LastReturned[k], LastReturned[l])) =>
                        PlaceIn(all_stocks, LastReturned[k].Symbol)
                            <= PlaceIn(all_stocks, LastReturned[l].Symbol))

\* two records of different symbols tie and stand in all_stocks order, while
\* a record of an earlier date has moved behind them
C20_Witness ==
    /\ JustReturned
    /\ \E k \in 1..(Len(LastReturned) - 1) :
          /\ SameKey(LastReturned[k], LastReturned[k + 1])
          /\ LastReturned[k].Symbol = all_stocks[1]
          /\ LastReturned[k + 1].Symbol = all_stocks[2]
    /\ LastReturned # Collected(bulk_cache[1], 1)

====
